---------------------------- MODULE Spec2Model ----------------------------
(***************************************************************************)
(* Model of the GBTP bank server (gabio-server).                           *)
(*                                                                         *)
(* The server entry point creates one WebSocketHandler per connection;     *)
(* each handler creates its own BankController, which creates its own      *)
(* BankService, which loads accounts.json into a private Map and rewrites  *)
(* the whole file after every mutation.                                    *)
(*                                                                         *)
(* Numbers.  Balances and amounts are JavaScript numbers.  Finite values   *)
(* are kept as an integer count of eighths of a currency unit (0.125),     *)
(* which doubles represent and add exactly, so that toFixed(2) has real    *)
(* rounding to do (0.125 -> "0.13").  The non-finite values a request can  *)
(* bring in (Number("Infinity")), NaN (Infinity - Infinity) and the JSON   *)
(* null that JSON.stringify writes for a non-finite number are kept as     *)
(* separate kinds.                                                         *)
(*                                                                         *)
(* Specifications.  Spec and its three restrictions run the server with    *)
(* its connections; SpecCodec runs the request codec alone on composed     *)
(* texts; SpecLedger runs one BankService alone.                           *)
(***************************************************************************)
EXTENDS Integers, FiniteSets, Sequences

(***************************************************************************)
(* JavaScript number values                                                *)
(***************************************************************************)
Fin(n) == [k |-> "fin", v |-> n]

\* n currency units, in eighths
Units(n) == Fin(8 * n)

Infinity == [k |-> "inf", v |-> 1]

NaN == [k |-> "nan", v |-> 0]

\* the value JSON.parse gives for a balance that was written as null
Null == [k |-> "null", v |-> 0]

\* ToNumber: null converts to +0, every number is itself
ToNumber(x) == IF x.k = "null" THEN Fin(0) ELSE x

IsNaN(x) == ToNumber(x).k = "nan"

\* a + b
JsAdd(a, b) ==
    LET x == ToNumber(a)
        y == ToNumber(b)
    IN  IF x.k = "nan" \/ y.k = "nan" THEN NaN
        ELSE IF x.k = "inf" /\ y.k = "inf"
             THEN (IF x.v = y.v THEN x ELSE NaN)
        ELSE IF x.k = "inf" THEN x
        ELSE IF y.k = "inf" THEN y
        ELSE Fin(x.v + y.v)

\* a - b
JsSub(a, b) ==
    LET y == ToNumber(b)
    IN  JsAdd(a, IF y.k = "nan" THEN NaN
                 ELSE IF y.k = "inf" THEN [k |-> "inf", v |-> 0 - y.v]
                 ELSE Fin(0 - y.v))

\* a > b (false whenever an operand is NaN)
JsGt(a, b) ==
    LET x == ToNumber(a)
        y == ToNumber(b)
    IN  IF x.k = "nan" \/ y.k = "nan" THEN FALSE
        ELSE IF x.k = "inf" /\ y.k = "inf" THEN x.v > y.v
        ELSE IF x.k = "inf" THEN x.v > 0
        ELSE IF y.k = "inf" THEN y.v < 0
        ELSE x.v > y.v

\* a <= b (false whenever an operand is NaN)
JsLe(a, b) == ~IsNaN(a) /\ ~IsNaN(b) /\ ~JsGt(a, b)

\* a >= b (false whenever an operand is NaN)
JsGe(a, b) == ~IsNaN(a) /\ ~IsNaN(b) /\ ~JsGt(b, a)

(***************************************************************************)
(* Decimal texts: what Number.prototype.toFixed(2) returns, and the        *)
(* literal "0" the handlers use when no balance is known.                  *)
(***************************************************************************)
\* the text of c hundredths written with exactly two fraction digits
Dec2(c) == [k |-> "dec2", v |-> c]

\* the one-character text "0"
TextZero == [k |-> "0", v |-> 0]

TextInfinity == [k |-> "Infinity", v |-> 1]

TextNegInfinity == [k |-> "Infinity", v |-> -1]

TextNaN == [k |-> "NaN", v |-> 0]

\* hundredths nearest to n eighths, a tie going to the larger magnitude
\* (an eighth is exact in binary, so the tie rule of toFixed applies as is)
RoundToCents(n) ==
    IF n >= 0 THEN (25 * n + 1) \div 2 ELSE 0 - ((25 * (0 - n) + 1) \div 2)

\* x.toFixed(2) for a number x (null has no toFixed: see HasToFixed)
ToFixed2(x) ==
    IF x.k = "nan" THEN TextNaN
    ELSE IF x.k = "inf" THEN (IF x.v > 0 THEN TextInfinity ELSE TextNegInfinity)
    ELSE Dec2(RoundToCents(x.v))

\* calling .toFixed on null throws a TypeError
HasToFixed(x) == x.k # "null"

\* Balance.validate: the text is not empty, is a number and is not negative
BalanceValidate(t) ==
    IF t.k = "NaN" THEN FALSE
    ELSE IF t.k = "Infinity" THEN t.v > 0
    ELSE t.v >= 0

\* Status.validate
StatusValidate(s) == s = "OK" \/ s = "ERROR"

\* Message.validate: something is left after trimming (no text of the model
\* is made of blanks only)
MessageValidate(m) == m # ""

(***************************************************************************)
(* Request fields.  Number(text) is a table over the field texts of the    *)
(* model; every other text is not a number.                                *)
(***************************************************************************)
\* Number(text) for a VALUE text
NumberOfValue(t) ==
    CASE t = "0"        -> Fin(0)
      [] t = ""         -> Fin(0)
      [] t = "0.125"    -> Fin(1)
      [] t = "250"      -> Units(250)
      [] t = "500"      -> Units(500)
      [] t = "-1"       -> Units(-1)
      [] t = "Infinity" -> Infinity
      [] OTHER          -> NaN

\* Value.validate
ValueValidate(t) ==
    /\ t # ""
    /\ ~IsNaN(NumberOfValue(t))
    /\ JsGe(NumberOfValue(t), Fin(0))

\* the identifier texts of the model that Number() reads as a number
NumericIds == {"1001", "1002", "1003", "9999"}

\* ID.validate
IDValidate(t) == t # "" /\ t \in NumericIds

ALLOWED_TYPES == {"TRANSFER", "WITHDRAW", "DEPOSIT", "BALANCE"}

\* Operation.validate
OperationValidate(t) == t \in ALLOWED_TYPES

\* a validate that looks at the amount before the source identifier
RequestValidateValueFirst(r) ==
    IF ~OperationValidate(r.operation) THEN "Operação inválida."
    ELSE IF ~ValueValidate(r.value) THEN "Valor inválido."
    ELSE IF ~IDValidate(r.account) THEN "Conta principal inválida."
    ELSE ""

\* a validate that lets a destination through on every operation
RequestValidateAnyDestination(r) ==
    IF ~OperationValidate(r.operation) THEN "Operação inválida."
    ELSE IF ~IDValidate(r.account) THEN "Conta principal inválida."
    ELSE IF ~ValueValidate(r.value) THEN "Valor inválido."
    ELSE IF r.operation = "TRANSFER" /\ ~IDValidate(r.destination)
    THEN "Conta de destino obrigatória e inválida para transferência."
    ELSE IF r.operation = "BALANCE" /\ NumberOfValue(r.value) # Fin(0)
    THEN "Valor deve ser zero para consulta de saldo."
    ELSE IF r.operation # "BALANCE" /\ JsLe(NumberOfValue(r.value), Fin(0))
    THEN "Valor deve ser maior que zero para depósito ou saque."
    ELSE ""

\* a validate without the rule on the amount of a deposit or withdrawal
RequestValidateAnyAmount(r) ==
    IF ~OperationValidate(r.operation) THEN "Operação inválida."
    ELSE IF ~IDValidate(r.account) THEN "Conta principal inválida."
    ELSE IF ~ValueValidate(r.value) THEN "Valor inválido."
    ELSE IF r.operation = "TRANSFER"
         THEN IF r.destination = "" \/ ~IDValidate(r.destination)
              THEN "Conta de destino obrigatória e inválida para transferência."
              ELSE IF JsLe(NumberOfValue(r.value), Fin(0))
                   THEN "Valor da transferência deve ser maior que zero."
                   ELSE ""
    ELSE IF r.destination # ""
         THEN "Conta de destino só deve ser informada em transferência."
    ELSE IF r.operation = "BALANCE" /\ NumberOfValue(r.value) # Fin(0)
         THEN "Valor deve ser zero para consulta de saldo."
    ELSE ""

\* GBTPRequest.validate: the message of the first failing rule, "" when the
\* request is accepted.  A request is [operation, account, destination,
\* value]; destination "" is the undefined destination of the constructor.
RequestValidate(r) ==
    LET valueNum == NumberOfValue(r.value)
    IN  IF ~OperationValidate(r.operation) THEN "Operação inválida."
        ELSE IF ~IDValidate(r.account) THEN "Conta principal inválida."
        ELSE IF ~ValueValidate(r.value) THEN "Valor inválido."
        ELSE IF r.operation = "TRANSFER"
             THEN IF r.destination = "" \/ ~IDValidate(r.destination)
                  THEN "Conta de destino obrigatória e inválida para transferência."
                  ELSE IF JsLe(valueNum, Fin(0))
                       THEN "Valor da transferência deve ser maior que zero."
                       ELSE ""
        ELSE IF r.destination # ""
             THEN "Conta de destino só deve ser informada em transferência."
        ELSE IF r.operation \in {"DEPOSIT", "WITHDRAW"} /\ JsLe(valueNum, Fin(0))
             THEN "Valor deve ser maior que zero para depósito ou saque."
        ELSE IF r.operation = "BALANCE" /\ valueNum # Fin(0)
             THEN "Valor deve ser zero para consulta de saldo."
        ELSE ""

(***************************************************************************)
(* The codec of requests.  A message text is a sequence of pieces: the     *)
(* line feed, the colon, the blank, and words, runs of characters with     *)
(* none of those three.  split, find/startsWith and trim cut a text only   *)
(* at line feeds, colons and blanks, so they are computed on the pieces    *)
(* as the code computes them on the characters.  The words of the model    *)
(* are such that none begins with a key name except the key name itself:   *)
(* a key that is longer than a key name is written as two words            *)
(* ("VALUE", "_X"), which makes startsWith a comparison of the first       *)
(* piece.  A field extracted from a text is the string its pieces make.    *)
(***************************************************************************)
LineFeed == "\n"

Colon == ":"

Blank == " "

Request(operation, account, destination, value) ==
    [operation |-> operation, account |-> account,
     destination |-> destination, value |-> value]

NoRequest == Request("", "", "", "")

\* the field keys, in the order fromString extracts them
KeyNames == <<"OPERATION", "ACCOUNT_ID", "TO_ACCOUNT_ID", "VALUE">>

\* text.split(sep): the runs of pieces between separators
RECURSIVE SplitOn(_, _)
SplitOn(text, sep) ==
    IF text = <<>> THEN << <<>> >>
    ELSE LET rest == SplitOn(Tail(text), sep)
         IN  IF Head(text) = sep THEN << <<>> >> \o rest
             ELSE << <<Head(text)>> \o Head(rest) >> \o Tail(rest)

\* lines.join(sep)
RECURSIVE JoinWith(_, _)
JoinWith(lines, sep) ==
    IF lines = <<>> THEN <<>>
    ELSE IF Len(lines) = 1 THEN Head(lines)
    ELSE Head(lines) \o <<sep>> \o JoinWith(Tail(lines), sep)

\* line.startsWith(key)
StartsWith(line, key) == line # <<>> /\ Head(line) = key

\* lines.find(line => line.startsWith(key)): the index of the first such
\* line, 0 when there is none
RECURSIVE FindLine(_, _, _)
FindLine(lines, key, i) ==
    IF i > Len(lines) THEN 0
    ELSE IF StartsWith(lines[i], key) THEN i
    ELSE FindLine(lines, key, i + 1)

RECURSIVE TrimStart(_)
TrimStart(s) ==
    IF s # <<>> /\ Head(s) = Blank THEN TrimStart(Tail(s)) ELSE s

RECURSIVE TrimEnd(_)
TrimEnd(s) ==
    IF s # <<>> /\ s[Len(s)] = Blank THEN TrimEnd(SubSeq(s, 1, Len(s) - 1))
    ELSE s

\* s.trim()
Trim(s) == TrimEnd(TrimStart(s))

\* the string that a run of pieces is
RECURSIVE StringOf(_)
StringOf(s) == IF s = <<>> THEN "" ELSE Head(s) \o StringOf(Tail(s))

\* s.toUpperCase(), for the words of the model that have lower-case letters
ToUpperCase(s) ==
    CASE s = "balance" -> "BALANCE"
      [] s = "deposit" -> "DEPOSIT"
      [] s = "pix"     -> "PIX"
      [] s = "deposit:00"  -> "DEPOSIT:00"
      [] s = "deposit :00" -> "DEPOSIT :00"
      [] OTHER         -> s

\* the message of the TypeError of undefined.trim()
TrimErrorText == "Cannot read properties of undefined (reading 'trim')"

KeyNotFound(key) == "Chave " \o key \o " não encontrada na requisição."

\* extractValue: [error, value], error "" when the value was extracted
extractValue(lines, key) ==
    LET i     == FindLine(lines, key, 1)
        parts == SplitOn(lines[i], Colon)
    IN  IF i = 0 THEN [error |-> KeyNotFound(key), value |-> ""]
        ELSE IF Len(parts) < 2 THEN [error |-> TrimErrorText, value |-> ""]
        ELSE [error |-> "", value |-> StringOf(Trim(parts[2]))]

\* new GBTPRequest(...): the fields as given, the operation in upper case
\* (Operation's constructor), an empty destination becoming undefined ("")
\* and validate() run: [error, request]
NewRequest(operation, account, destination, value) ==
    LET r == Request(ToUpperCase(operation), account, destination, value)
    IN  IF RequestValidate(r) # ""
        THEN [error |-> RequestValidate(r), request |-> NoRequest]
        ELSE [error |-> "", request |-> r]

\* GBTPRequest.fromString: [error, request], the error being the message of
\* the first Error thrown
fromString(text) ==
    LET lines       == SplitOn(text, LineFeed)
        operation   == extractValue(lines, KeyNames[1])
        account     == extractValue(lines, KeyNames[2])
        destination == extractValue(lines, KeyNames[3])
        value       == extractValue(lines, KeyNames[4])
    IN  IF operation.error # ""
        THEN [error |-> operation.error, request |-> NoRequest]
        ELSE IF account.error # ""
        THEN [error |-> account.error, request |-> NoRequest]
        ELSE IF destination.error # ""
        THEN [error |-> destination.error, request |-> NoRequest]
        ELSE IF value.error # ""
        THEN [error |-> value.error, request |-> NoRequest]
        ELSE NewRequest(ToUpperCase(operation.value), account.value,
                        destination.value, value.value)

\* a field of toString: the pieces of a key, a colon and the field's string
FieldLine(key, field) ==
    <<key, Colon>> \o (IF field = "" THEN <<>> ELSE <<field>>)

\* a toString that writes no TO_ACCOUNT_ID line for a request without
\* destination
toStringWithoutEmptyDestination(r) ==
    JoinWith(<< <<"OPERATION", ":", r.operation>>,
                <<"ACCOUNT_ID", ":", r.account>> >>
             \o (IF r.destination = "" THEN <<>>
                 ELSE << <<"TO_ACCOUNT_ID", ":", r.destination>> >>)
             \o << <<"VALUE", ":", r.value>> >>,
             "\n")

\* GBTPRequest.toString
toString(r) ==
    JoinWith(<< FieldLine(KeyNames[1], r.operation),
                FieldLine(KeyNames[2], r.account),
                FieldLine(KeyNames[3], r.destination),
                FieldLine(KeyNames[4], r.value) >>,
             LineFeed)

(***************************************************************************)
(* BankService. accounts is the Map of one service instance, a function   *)
(* from identifier to balance.  An operation yields                        *)
(*   error    the message of the Error it throws, "" when it returns       *)
(*   accounts the Map when the call ends                                   *)
(*   value    the number it returns (meaningless when it throws)           *)
(*   saved    whether writeFileSync rewrote accounts.json                  *)
(* disk is the outcome of the writeFileSync the call may make: "ok", or    *)
(* the errno it fails with.  EACCES fails when the file is opened and      *)
(* leaves it as it was; EFBIG (as ENOSPC) fails when the content is        *)
(* written, after the open has truncated the file to no bytes.             *)
(***************************************************************************)
\* createDefaultAccountsFile: the accounts a first start provisions
DefaultAccounts ==
    [a \in {"1001", "1002", "1003"} |->
        CASE a = "1001" -> Units(500)
          [] a = "1002" -> Units(1000)
          [] a = "1003" -> Units(250)]

\* the outcomes of a writeFileSync
DiskOk == "ok"

DiskFailures == {"EACCES", "EFBIG"}

DiskOutcomes == {DiskOk} \cup DiskFailures

\* whether a writeFileSync with that outcome has truncated the file
Truncates(disk) == disk = "EFBIG"

\* the message of the error a failing writeFileSync throws
WriteErrorText(disk) ==
    CASE disk = "EACCES" -> "EACCES: permission denied, open 'accounts.json'"
      [] disk = "EFBIG"  -> "EFBIG: file too large, write"
      [] OTHER           -> ""

\* accounts.json: absent, with the content of a Map, or with no bytes
NoFile == [exists |-> FALSE, empty |-> FALSE, content |-> [a \in {} |-> 0]]

FileOf(content) == [exists |-> TRUE, empty |-> FALSE, content |-> content]

EmptyFile == [exists |-> TRUE, empty |-> TRUE, content |-> [a \in {} |-> 0]]

\* accounts.json after a writeFileSync of content with that outcome
Written(old, content, disk) ==
    IF disk = DiskOk THEN FileOf(content)
    ELSE IF Truncates(disk) THEN EmptyFile
    ELSE old

\* what JSON.stringify writes for one balance: null for a non-finite number
JsonNumber(x) == IF x.k = "fin" THEN x ELSE Null

\* saveToFile: the content written for a Map
SaveToFile(accounts) == [a \in DOMAIN accounts |-> JsonNumber(accounts[a])]

\* loadFromFile: the Map built from the file's content
LoadFromFile(content) == [a \in DOMAIN content |-> content[a]]

Throws(accounts, message) ==
    [error |-> message, accounts |-> accounts, value |-> NaN, saved |-> FALSE]

\* whether the Error of a service call is that of its writeFileSync
WriteFailed(r) == r.error \in { WriteErrorText(d) : d \in DiskFailures }

\* the tail of every mutating operation: saveToFile, then return the balance
SaveAndReturn(accounts, accountId, disk) ==
    IF disk = DiskOk
    THEN [error |-> "", accounts |-> accounts, value |-> accounts[accountId],
          saved |-> TRUE]
    ELSE Throws(accounts, WriteErrorText(disk))

getBalance(accounts, accountId) ==
    IF accountId \notin DOMAIN accounts
    THEN Throws(accounts, "Conta de origem inexistente")
    ELSE [error |-> "", accounts |-> accounts, value |-> accounts[accountId],
          saved |-> FALSE]

deposit(accounts, accountId, amount, disk) ==
    IF accountId \notin DOMAIN accounts
    THEN Throws(accounts, "Conta de origem inexistente")
    ELSE IF JsLe(amount, Fin(0))
    THEN Throws(accounts, "Valor inválido para depósito")
    ELSE SaveAndReturn([accounts EXCEPT ![accountId] = JsAdd(@, amount)],
                       accountId, disk)

\* a withdrawal that takes the amount from every account
withdrawFromEvery(accounts, accountId, amount, disk) ==
    IF accountId \notin DOMAIN accounts
    THEN Throws(accounts, "Conta de origem inexistente")
    ELSE IF JsLe(amount, Fin(0))
    THEN Throws(accounts, "Valor inválido para saque")
    ELSE IF JsGt(amount, accounts[accountId])
    THEN Throws(accounts, "Saldo insuficiente")
    ELSE SaveAndReturn([a \in DOMAIN accounts |-> JsSub(accounts[a], amount)],
                       accountId, disk)

withdraw(accounts, accountId, amount, disk) ==
    IF accountId \notin DOMAIN accounts
    THEN Throws(accounts, "Conta de origem inexistente")
    ELSE IF JsLe(amount, Fin(0))
    THEN Throws(accounts, "Valor inválido para saque")
    ELSE IF JsGt(amount, accounts[accountId])
    THEN Throws(accounts, "Saldo insuficiente")
    ELSE SaveAndReturn([accounts EXCEPT ![accountId] = JsSub(@, amount)],
                       accountId, disk)

\* a transfer that looks the accounts up before it compares them
transferExistenceFirst(accounts, sourceId, destId, amount, disk) ==
    IF sourceId \notin DOMAIN accounts
    THEN Throws(accounts, "Conta de origem inexistente")
    ELSE IF destId \notin DOMAIN accounts
    THEN Throws(accounts, "Conta de destino inexistente")
    ELSE IF sourceId = destId
    THEN Throws(accounts, "Conta de origem e destino não podem ser iguais")
    ELSE IF JsLe(amount, Fin(0))
    THEN Throws(accounts, "Valor inválido para transferência")
    ELSE IF JsGt(amount, accounts[sourceId])
    THEN Throws(accounts, "Saldo insuficiente para transferência")
    ELSE SaveAndReturn([accounts EXCEPT ![sourceId] = JsSub(@, amount),
                                        ![destId] = JsAdd(@, amount)],
                       sourceId, disk)

transfer(accounts, sourceId, destId, amount, disk) ==
    IF sourceId = destId
    THEN Throws(accounts, "Conta de origem e destino não podem ser iguais")
    ELSE IF sourceId \notin DOMAIN accounts
    THEN Throws(accounts, "Conta de origem inexistente")
    ELSE IF destId \notin DOMAIN accounts
    THEN Throws(accounts, "Conta de destino inexistente")
    ELSE IF JsLe(amount, Fin(0))
    THEN Throws(accounts, "Valor inválido para transferência")
    ELSE IF JsGt(amount, accounts[sourceId])
    THEN Throws(accounts, "Saldo insuficiente para transferência")
    ELSE SaveAndReturn([accounts EXCEPT ![sourceId] = JsSub(@, amount),
                                        ![destId] = JsAdd(@, amount)],
                       sourceId, disk)

(***************************************************************************)
(* GBTPResponse and BankController.process                                 *)
(***************************************************************************)
Response(status, message, balance) ==
    [status |-> status, message |-> message, balance |-> balance]

\* GBTPResponse.validate: the message of the Error it throws, "" when valid
ResponseValidate(resp) ==
    IF ~StatusValidate(resp.status) THEN "Status inválido."
    ELSE IF ~MessageValidate(resp.message) THEN "Mensagem inválida."
    ELSE IF ~BalanceValidate(resp.balance) THEN "Saldo inválido."
    ELSE ""

\* the response of a call that sends none (process threw)
NoResponse == Response("", "", TextZero)

\* the message of the TypeError of null.toFixed(2)
TypeErrorText == "Cannot read properties of null (reading 'toFixed')"

\* the switch of process: the service call of the request's operation
Dispatch(accounts, request, disk) ==
    LET valueNum == NumberOfValue(request.value)
    IN  CASE request.operation = "BALANCE" ->
               getBalance(accounts, request.account)
          [] request.operation = "DEPOSIT" ->
               deposit(accounts, request.account, valueNum, disk)
          [] request.operation = "WITHDRAW" ->
               withdraw(accounts, request.account, valueNum, disk)
          [] request.operation = "TRANSFER" ->
               transfer(accounts, request.account, request.destination,
                        valueNum, disk)
          [] OTHER -> Throws(accounts, "Operação desconhecida")

\* the fixed success message of an operation kind
SuccessMessage(operation) ==
    CASE operation = "BALANCE"  -> "Saldo consultado com sucesso"
      [] operation = "DEPOSIT"  -> "Depósito realizado com sucesso"
      [] operation = "WITHDRAW" -> "Saque efetuado"
      [] operation = "TRANSFER" -> "Transferência concluída"
      [] OTHER -> ""

\* the catch block of process: the balance text it recovers
RecoveredBalance(accounts, accountId) ==
    IF accountId \in DOMAIN accounts /\ HasToFixed(accounts[accountId])
    THEN ToFixed2(accounts[accountId])
    ELSE TextZero

\* process: threw says that an Error left process, in which case no response
\* exists; accounts and saved are those of the service call.
Process(accounts, request, disk) ==
    LET r       == Dispatch(accounts, request, disk)
        okResp  == Response("OK", SuccessMessage(request.operation),
                            ToFixed2(r.value))
        \* the Error the try block ends with, "" when it returns okResp
        caught  == IF r.error # "" THEN r.error
                   ELSE IF ~HasToFixed(r.value) THEN TypeErrorText
                   ELSE ResponseValidate(okResp)
        errResp == Response("ERROR", caught,
                            RecoveredBalance(r.accounts, request.account))
    IN  IF caught = ""
        THEN [threw |-> FALSE, response |-> okResp,
              accounts |-> r.accounts, saved |-> r.saved,
              writeFailed |-> WriteFailed(r)]
        ELSE IF ResponseValidate(errResp) = ""
        THEN [threw |-> FALSE, response |-> errResp,
              accounts |-> r.accounts, saved |-> r.saved,
              writeFailed |-> WriteFailed(r)]
        ELSE [threw |-> TRUE, response |-> NoResponse,
              accounts |-> r.accounts, saved |-> r.saved,
              writeFailed |-> WriteFailed(r)]

(***************************************************************************)
(* The server: accounts.json, the connections and their handlers           *)
(***************************************************************************)
\* the most messages a run handles
MaxRequests == 2

Conns == {"c1", "c2"}

\* the texts the clients of the model send
OperationTexts == ALLOWED_TYPES \cup {"PIX"}

AccountTexts == {"1001", "9999"}

DestinationTexts == {"", "1001", "1002", "9999"}

FiniteValueTexts == {"0", "0.125", "500"}

ValueTexts == FiniteValueTexts \cup {"Infinity"}

\* the requests the model sends that validation rejects: one per rule that a
\* well-formed text can break
Malformed ==
    { Request("PIX", "1001", "", "500"),
      Request("BALANCE", "1001", "", "500"),
      Request("DEPOSIT", "1001", "", "0"),
      Request("WITHDRAW", "1001", "1002", "500"),
      Request("TRANSFER", "1001", "", "500"),
      Request("TRANSFER", "1001", "1002", "0") }

\* every request validation accepts, and the malformed ones
Requests(values) ==
    { r \in [operation : OperationTexts, account : AccountTexts,
             destination : DestinationTexts, value : values] :
        RequestValidate(r) = "" \/ r \in Malformed }

\* messages fromString cannot decode: the empty message, a BALANCE request
\* without its TO_ACCOUNT_ID line and a request whose VALUE line has no colon
Undecodable ==
    { <<>>,
      JoinWith(<< FieldLine("OPERATION", "BALANCE"),
                  FieldLine("ACCOUNT_ID", "1001"),
                  FieldLine("VALUE", "0") >>, LineFeed),
      JoinWith(<< FieldLine("OPERATION", "DEPOSIT"),
                  FieldLine("ACCOUNT_ID", "1001"),
                  FieldLine("TO_ACCOUNT_ID", ""),
                  <<"VALUE", Blank, "500">> >>, LineFeed) }

\* the message texts the clients of the model send
Texts(values) == { toString(r) : r \in Requests(values) } \cup Undecodable

AllTexts == Texts(ValueTexts)

FiniteTexts == Texts(FiniteValueTexts)

\* fromString of every message text of the model, computed once
Decoded == [t \in AllTexts |-> fromString(t)]

\* the Map of a connection that has no handler
NoAccounts == [a \in {} |-> Null]

\* no balance text
NoText == [k |-> "none", v |-> 0]

VARIABLES
    file,     \* accounts.json: [exists, empty, content]
    open,     \* the connections that have a WebSocketHandler
    mem,      \* mem[c]: the accounts Map of the BankService of connection c
    down,     \* an uncaught Error has ended the server process
    served,   \* the number of messages handled
    last,     \* the last message handled: connection, request and outcome
    acked,    \* history: the initial balances with every mutation that was
              \* answered STATUS=OK applied, in the order of the answers
    fresh,    \* history: fresh[a] is the balance text of the latest OK answer
              \* to a mutation with source a, while no later mutation of any
              \* service has touched a; NoText otherwise
    wire,     \* a message text on its way through the codec alone
    svc       \* one BankService called directly

vars == <<file, open, mem, down, served, last, acked, fresh, wire, svc>>

\* the codec and the lone service, not in use
bench == <<wire, svc>>

NoDecoded == [error |-> "", request |-> NoRequest]

NoWire ==
    [stage |-> "none", fields |-> NoRequest, base |-> <<>>, text |-> <<>>,
     dropped |-> "", colon |-> "", added |-> 0,
     decoded |-> NoDecoded, again |-> NoDecoded]

NoCall == [op |-> "", src |-> "", dst |-> "", amt |-> NaN]

NoSvc ==
    [calls |-> 0, accounts |-> NoAccounts, before |-> NoAccounts,
     call |-> NoCall, error |-> "", value |-> NaN,
     prev |-> [call |-> NoCall, error |-> "", before |-> NoAccounts]]

\* no connection, no handler and no message yet
InitHandlers ==
    /\ open = {}
    /\ mem = [c \in Conns |-> NoAccounts]
    /\ down = FALSE
    /\ served = 0
    /\ last = [conn |-> "", raw |-> <<>>, request |-> NoRequest,
               stage |-> "none", response |-> NoResponse,
               writeFailed |-> FALSE, saved |-> FALSE]
    /\ acked = DefaultAccounts
    /\ fresh = [a \in DOMAIN DefaultAccounts |-> NoText]

\* the server before its first connection
InitServer ==
    /\ file = NoFile
    /\ InitHandlers

Init == InitServer /\ wire = NoWire /\ svc = NoSvc

\* wss.on("connection"): new WebSocketHandler -> new BankController ->
\* new BankService, whose constructor writes the default file when there is
\* none and loads the file.
Connect(c) ==
    /\ ~down
    /\ c \notin open
    /\ ~file.empty
    /\ file' = IF file.exists THEN file
               ELSE Written(file, SaveToFile(DefaultAccounts), DiskOk)
    /\ open' = open \cup {c}
    /\ mem' = [mem EXCEPT ![c] = LoadFromFile(file'.content)]
    /\ UNCHANGED <<down, served, last, acked, fresh, bench>>

\* the constructor's write of the default file fails: the Error leaves the
\* connection listener, nobody catches it and the server process ends; the
\* file is as the failed write leaves it
ConnectFails(c, disk) ==
    /\ ~down
    /\ c \notin open
    /\ ~file.exists
    /\ disk \in DiskFailures
    /\ file' = Written(file, SaveToFile(DefaultAccounts), disk)
    /\ down' = TRUE
    /\ UNCHANGED <<open, mem, served, last, acked, fresh, bench>>

\* the constructor finds accounts.json with no bytes: JSON.parse throws a
\* SyntaxError in loadFromFile, nobody catches it and the server process
\* ends
LoadFails(c) ==
    /\ ~down
    /\ c \notin open
    /\ file.exists
    /\ file.empty
    /\ down' = TRUE
    /\ UNCHANGED <<file, open, mem, served, last, acked, fresh, bench>>

\* the server is started again after it ended: no connection and no
\* service of the ended process is left
Restart ==
    /\ down
    /\ down' = FALSE
    /\ open' = {}
    /\ mem' = [c \in Conns |-> NoAccounts]
    /\ UNCHANGED <<file, served, last, acked, fresh, bench>>

IsMutation(operation) == operation \in {"DEPOSIT", "WITHDRAW", "TRANSFER"}

\* acked after an OK answer to a mutation
Acknowledge(ledger, request) ==
    LET amt == NumberOfValue(request.value)
    IN  CASE request.operation = "DEPOSIT" ->
               [ledger EXCEPT ![request.account] = JsAdd(@, amt)]
          [] request.operation = "WITHDRAW" ->
               [ledger EXCEPT ![request.account] = JsSub(@, amt)]
          [] request.operation = "TRANSFER" ->
               [ledger EXCEPT ![request.account] = JsSub(@, amt),
                              ![request.destination] = JsAdd(@, amt)]
          [] OTHER -> ledger

\* fresh after a request was processed from the Map before
Freshen(texts, before, request, p) ==
    IF p.accounts = before THEN texts
    ELSE [a \in DOMAIN texts |->
            IF a = request.account
            THEN (IF ~p.threw /\ p.response.status = "OK"
                  THEN p.response.balance ELSE NoText)
            ELSE IF p.accounts[a] # before[a] THEN NoText
            ELSE texts[a]]

\* a catch block that formats the balance it does not have
ErrorResponseTwoDecimals(message) == Response("ERROR", message, Dec2(0))

\* the response of the handler's catch blocks
ErrorResponse(message) == Response("ERROR", message, TextZero)

\* ws.on("message"): decode and validate the request, answer ERROR with
\* balance "0" when that fails; otherwise process it, validate the response
\* and send it.  An Error that leaves process is caught by nobody: the
\* message gets no answer and the server process ends, its services as they
\* were when the Error was thrown.
OnMessage(c, raw, disk) ==
    /\ ~down
    /\ c \in open
    /\ served < MaxRequests
    /\ served' = served + 1
    /\ UNCHANGED bench
    /\ LET decoded == Decoded[raw]
           request == decoded.request
           p       == Process(mem[c], request, disk)
       IN  IF decoded.error # ""
           THEN /\ last' = [conn |-> c, raw |-> raw, request |-> NoRequest,
                            stage |-> "rejected",
                            response |-> ErrorResponse(decoded.error),
                            writeFailed |-> FALSE, saved |-> FALSE]
                /\ UNCHANGED <<file, open, mem, down, acked, fresh>>
           ELSE /\ last' = [conn |-> c, raw |-> raw, request |-> request,
                            stage |-> IF p.threw THEN "threw" ELSE "answered",
                            response |-> p.response,
                            writeFailed |-> p.writeFailed,
                            saved |-> p.saved]
                /\ file' = IF p.saved \/ p.writeFailed
                           THEN Written(file, SaveToFile(p.accounts), disk)
                           ELSE file
                /\ down' = p.threw
                /\ mem' = [mem EXCEPT ![c] = p.accounts]
                /\ acked' = IF ~p.threw /\ p.response.status = "OK"
                            THEN Acknowledge(acked, request) ELSE acked
                /\ fresh' = Freshen(fresh, mem[c], request, p)
                /\ UNCHANGED open

\* every message and every disk outcome
Next ==
    \/ \E c \in Conns : Connect(c)
    \/ \E c \in Conns, d \in DiskFailures : ConnectFails(c, d)
    \/ \E c \in Conns : LoadFails(c)
    \/ Restart
    \/ \E c \in Conns, r \in AllTexts, d \in DiskOutcomes :
          OnMessage(c, r, d)

Spec == Init /\ [][Next]_vars

\* a disk that never fails
NextReliableDisk ==
    \/ \E c \in Conns : Connect(c)
    \/ Restart
    \/ \E c \in Conns, r \in AllTexts : OnMessage(c, r, DiskOk)

SpecReliableDisk == Init /\ [][NextReliableDisk]_vars

\* finite amounts only, and a disk that may fail
NextFiniteAmounts ==
    \/ \E c \in Conns : Connect(c)
    \/ \E c \in Conns, d \in DiskFailures : ConnectFails(c, d)
    \/ \E c \in Conns : LoadFails(c)
    \/ Restart
    \/ \E c \in Conns, r \in FiniteTexts, d \in DiskOutcomes :
          OnMessage(c, r, d)

SpecFiniteAmounts == Init /\ [][NextFiniteAmounts]_vars

\* finite amounts only and a disk that never fails: nothing ends the server
NextFairWeather ==
    \/ \E c \in Conns : Connect(c)
    \/ \E c \in Conns, r \in FiniteTexts : OnMessage(c, r, DiskOk)

SpecFairWeather == Init /\ [][NextFairWeather]_vars

(***************************************************************************)
(* The codec alone: a client composes a request text from four fields,     *)
(* may leave one of the four lines out and may add lines of its own; the   *)
(* text is decoded as the message handler decodes it, and a decoded        *)
(* request is encoded and decoded again.                                   *)
(***************************************************************************)
\* the most lines a client adds to a text
MaxExtraLines == 1

\* the fields the clients compose texts from
ComposedFields ==
    [operation : {"BALANCE", "TRANSFER", "deposit", "PIX"},
     account : {"1001", "abc"},
     destination : {"", "1002", "abc"},
     value : {"0", "500", "-1", ""}]

\* the lines a client adds: one with an unknown key and one whose key begins
\* with a key name
ExtraLines ==
    { <<"NOTE", Colon, "hello">>,
      <<"VALUE", "_X", Colon, "0.125">> }

\* a line as a client writes it, with blanks around the field or without
ComposedLine(key, field, padded) ==
    <<key, Colon>> \o (IF padded THEN <<Blank>> ELSE <<>>)
                   \o (IF field = "" THEN <<>> ELSE <<field>>)
                   \o (IF padded THEN <<Blank>> ELSE <<>>)

\* the four lines of a request text, in the order of the protocol
Compose(f, padded) ==
    JoinWith(<< ComposedLine(KeyNames[1], f.operation, padded),
                ComposedLine(KeyNames[2], f.account, padded),
                ComposedLine(KeyNames[3], f.destination, padded),
                ComposedLine(KeyNames[4], f.value, padded) >>,
             LineFeed)

\* lines without the i-th
RemoveAt(lines, i) ==
    SubSeq(lines, 1, i - 1) \o SubSeq(lines, i + 1, Len(lines))

\* lines with one more after the first i
InsertAt(lines, i, line) ==
    SubSeq(lines, 1, i) \o <<line>> \o SubSeq(lines, i + 1, Len(lines))

InitCodec ==
    /\ InitServer
    /\ svc = NoSvc
    /\ wire \in { [stage |-> "composed", fields |-> f,
                   base |-> Compose(f, padded), text |-> Compose(f, padded),
                   dropped |-> "", colon |-> "", added |-> 0,
                   decoded |-> NoDecoded, again |-> NoDecoded] :
                  f \in ComposedFields, padded \in BOOLEAN }

\* the client leaves the line of the k-th key out
DropLine(k) ==
    /\ wire.stage = "composed"
    /\ wire.dropped = ""
    /\ wire.added = 0
    /\ LET without ==
             JoinWith(RemoveAt(SplitOn(wire.text, LineFeed), k), LineFeed)
       IN  wire' = [wire EXCEPT !.dropped = KeyNames[k],
                                !.base = without, !.text = without]
    /\ UNCHANGED <<file, open, mem, down, served, last, acked, fresh, svc>>

\* what a client writes after a field that has a colon in it
ColonPart == <<Colon, "00">>

\* lines with the i-th replaced
ReplaceAt(lines, i, line) ==
    SubSeq(lines, 1, i - 1) \o <<line>> \o SubSeq(lines, i + 1, Len(lines))

\* the client writes the field of the k-th key with a colon in it
WriteColon(k) ==
    /\ wire.stage = "composed"
    /\ wire.dropped = ""
    /\ wire.colon = ""
    /\ wire.added = 0
    /\ LET lines == SplitOn(wire.text, LineFeed)
           with  == JoinWith(ReplaceAt(lines, k, lines[k] \o ColonPart),
                             LineFeed)
       IN  wire' = [wire EXCEPT !.colon = KeyNames[k],
                                !.base = with, !.text = with]
    /\ UNCHANGED <<file, open, mem, down, served, last, acked, fresh, svc>>

\* the client adds a line after the first i lines of the text
AddLine(i, line) ==
    /\ wire.stage = "composed"
    /\ wire.added < MaxExtraLines
    /\ i <= Len(SplitOn(wire.text, LineFeed))
    /\ wire' = [wire EXCEPT
                  !.added = @ + 1,
                  !.text = JoinWith(InsertAt(SplitOn(wire.text, LineFeed),
                                             i, line), LineFeed)]
    /\ UNCHANGED <<file, open, mem, down, served, last, acked, fresh, svc>>

\* GBTPRequest.fromString(raw) of the message handler
Receive ==
    /\ wire.stage = "composed"
    /\ wire' = [wire EXCEPT !.stage = "received",
                            !.decoded = fromString(wire.text)]
    /\ UNCHANGED <<file, open, mem, down, served, last, acked, fresh, svc>>

\* the decoded request is written with toString and that text is decoded
Resend ==
    /\ wire.stage = "received"
    /\ wire.decoded.error = ""
    /\ wire' = [wire EXCEPT
                  !.stage = "resent",
                  !.again = fromString(toString(wire.decoded.request))]
    /\ UNCHANGED <<file, open, mem, down, served, last, acked, fresh, svc>>

NextCodec ==
    \/ \E k \in 1..Len(KeyNames) : DropLine(k)
    \/ \E k \in 1..Len(KeyNames) : WriteColon(k)
    \/ \E i \in 0..(Len(KeyNames) + MaxExtraLines), line \in ExtraLines :
          AddLine(i, line)
    \/ Receive
    \/ Resend

SpecCodec == InitCodec /\ [][NextCodec]_vars

(***************************************************************************)
(* One BankService alone: the ledger operations called one after another   *)
(* on the same Map, as the controller calls them, with a disk that never   *)
(* fails.  The amounts are the numbers Number() gives for VALUE texts,     *)
(* those validation would stop included.                                   *)
(***************************************************************************)
\* the most calls a run makes
MaxCalls == 2

LedgerIds == {"1001", "1002", "9999"}

LedgerAmounts ==
    { NumberOfValue(t) : t \in {"-1", "0", "0.125", "500", "Infinity"} }

\* new BankService() where there is no accounts.json: the constructor
\* writes the default accounts and loads them
InitLedger ==
    /\ file = Written(NoFile, SaveToFile(DefaultAccounts), DiskOk)
    /\ InitHandlers
    /\ wire = NoWire
    /\ svc = [NoSvc EXCEPT !.accounts = LoadFromFile(file.content),
                           !.before = LoadFromFile(file.content)]

\* the service and accounts.json after a call that ended as r
Called(call, r) ==
    /\ svc' = [calls |-> svc.calls + 1, accounts |-> r.accounts,
               before |-> svc.accounts, call |-> call,
               error |-> r.error, value |-> r.value,
               prev |-> [call |-> svc.call, error |-> svc.error,
                         before |-> svc.before]]
    /\ file' = IF r.saved
               THEN Written(file, SaveToFile(r.accounts), DiskOk)
               ELSE file
    /\ UNCHANGED <<open, mem, down, served, last, acked, fresh, wire>>

CallGetBalance(a) ==
    /\ svc.calls < MaxCalls
    /\ Called([op |-> "getBalance", src |-> a, dst |-> "", amt |-> NaN],
              getBalance(svc.accounts, a))

CallDeposit(a, x) ==
    /\ svc.calls < MaxCalls
    /\ Called([op |-> "deposit", src |-> a, dst |-> "", amt |-> x],
              deposit(svc.accounts, a, x, DiskOk))

CallWithdraw(a, x) ==
    /\ svc.calls < MaxCalls
    /\ Called([op |-> "withdraw", src |-> a, dst |-> "", amt |-> x],
              withdraw(svc.accounts, a, x, DiskOk))

CallTransfer(a, b, x) ==
    /\ svc.calls < MaxCalls
    /\ Called([op |-> "transfer", src |-> a, dst |-> b, amt |-> x],
              transfer(svc.accounts, a, b, x, DiskOk))

NextLedger ==
    \/ \E a \in LedgerIds : CallGetBalance(a)
    \/ \E a \in LedgerIds, x \in LedgerAmounts : CallDeposit(a, x)
    \/ \E a \in LedgerIds, x \in LedgerAmounts : CallWithdraw(a, x)
    \/ \E a \in LedgerIds, b \in LedgerIds, x \in LedgerAmounts :
          CallTransfer(a, b, x)

SpecLedger == InitLedger /\ [][NextLedger]_vars

(***************************************************************************)
(* Properties                                                              *)
(***************************************************************************)
\* this step handled a message
Handled == served' = served + 1

\* this step handled a message that passed decoding and validation, so that
\* process was called with it
Processed == Handled /\ last'.stage # "rejected"

\* x >= 0 as JavaScript compares
NonNegative(x) == JsGe(x, Fin(0))

\* C1: in every reachable state every balance of every service's Map and
\* every balance of the persisted snapshot is >= 0.
C1_BalancesNonNegative ==
    /\ \A c \in Conns : \A a \in DOMAIN mem[c] : NonNegative(mem[c][a])
    /\ \A a \in DOMAIN file.content : NonNegative(file.content[a])

\* the two balances a transfer names, before and after: both moved by amt
\* in opposite directions, or neither moved
BothOrNeither(before, after, src, dst, amt) ==
    IF src \in DOMAIN before /\ dst \in DOMAIN before
    THEN /\ src \in DOMAIN after /\ dst \in DOMAIN after
         /\ \/ /\ after[src] = JsSub(before[src], amt)
               /\ after[dst] = JsAdd(before[dst], amt)
            \/ /\ after[src] = before[src]
               /\ after[dst] = before[dst]
    ELSE after = before

\* C2: a TRANSFER request changes the source and the destination balance
\* together, by the amount and in opposite directions, or changes neither,
\* in the Map of the service that ran it and in the persisted snapshot.
C2_TransferAtomic ==
    [][(Processed /\ last'.request.operation = "TRANSFER") =>
         LET r   == last'.request
             amt == NumberOfValue(r.value)
         IN  /\ BothOrNeither(mem[last'.conn], mem'[last'.conn],
                              r.account, r.destination, amt)
             /\ BothOrNeither(file.content, file'.content,
                              r.account, r.destination, amt)]_vars

\* C3: after a mutation with source a was answered OK on some connection, a
\* BALANCE request for a on any connection is answered OK with the balance
\* of that answer, as long as no other mutation touched a in between.
C3_SharedLedger ==
    [][(Processed /\ last'.request.operation = "BALANCE"
          /\ last'.request.account \in DOMAIN fresh
          /\ fresh[last'.request.account] # NoText) =>
         /\ last'.response.status = "OK"
         /\ last'.response.balance = fresh[last'.request.account]]_vars

\* C4: the persisted snapshot holds, for every account, the initial balance
\* with every mutation that was answered OK applied: no acknowledged
\* mutation is missing from it.
C4_NoAcknowledgedMutationLost ==
    file.exists => file.content = SaveToFile(acked)

\* C5: right after a service call that succeeded in mutating, the snapshot
\* has the identifiers and balances of that service's Map; a BALANCE request
\* and a request a ledger rule rejects write nothing.
C5_SnapshotEqualsMemory ==
    [][Processed =>
         /\ last'.saved => file'.content = mem'[last'.conn]
         /\ (\/ last'.request.operation = "BALANCE"
             \/ (last'.stage = "answered" /\ last'.response.status = "ERROR"
                   /\ ~last'.writeFailed))
            => (~last'.saved /\ file' = file)]_vars

\* C6: a call that ends in failure leaves every Map and the snapshot as
\* they were, and the balance its response reports is the one the source
\* had before the call.
C6_FailureChangesNothing ==
    [][(Processed /\ last'.stage = "answered"
          /\ last'.response.status = "ERROR") =>
         /\ mem' = mem
         /\ file' = file
         /\ last'.response.balance =
              RecoveredBalance(mem[last'.conn], last'.request.account)]_vars

\* C7: a mutation is answered OK only when its snapshot write succeeded,
\* and when the write fails the client is answered STATUS=ERROR.
C7_OkOnlyIfPersisted ==
    [][(Processed /\ IsMutation(last'.request.operation)) =>
         /\ (last'.stage = "answered" /\ last'.response.status = "OK")
               => last'.saved
         /\ last'.writeFailed
               => (last'.stage = "answered"
                     /\ last'.response.status = "ERROR")]_vars

\* the service would carry the request out: the accounts it names exist and
\* no ledger rule rejects its amount
Legal(accounts, request) == Dispatch(accounts, request, DiskOk).error = ""

\* C8: a validated request with a finite amount that names existing accounts
\* and breaks no ledger rule, and whose snapshot write does not fail, is
\* answered OK with the fixed message of its kind and the source's balance
\* after the operation, written with two fraction digits.
C8_SuccessResponse ==
    [][(Processed /\ Legal(mem[last'.conn], last'.request)
          /\ NumberOfValue(last'.request.value).k = "fin"
          /\ ~last'.writeFailed) =>
         /\ last'.stage = "answered"
         /\ last'.response.status = "OK"
         /\ last'.response.message = SuccessMessage(last'.request.operation)
         /\ last'.response.balance.k = "dec2"
         /\ last'.response.balance =
              ToFixed2(mem'[last'.conn][last'.request.account])]_vars

\* C9: a request a ledger rule rejects is answered ERROR with the rule's
\* message and the source's current balance, "0" when the source does not
\* exist.
C9_FailureResponse ==
    [][(Processed /\ ~Legal(mem[last'.conn], last'.request)) =>
         LET src == last'.request.account
             m   == mem[last'.conn]
         IN  /\ last'.stage = "answered"
             /\ last'.response.status = "ERROR"
             /\ last'.response.message =
                  Dispatch(m, last'.request, DiskOk).error
             /\ last'.response.balance =
                  IF src \in DOMAIN m THEN ToFixed2(m[src]) ELSE TextZero]_vars

\* C10: process returns a valid response for every validated request: no
\* Error leaves it.
C10_ProcessNeverThrows ==
    /\ last.stage # "threw"
    /\ last.stage = "answered" => ResponseValidate(last.response) = ""

\* C11: every message a connection receives is answered, once, with a
\* structurally valid response (STATUS OK or ERROR, a MESSAGE that is not
\* empty, a BALANCE that is a non-negative decimal), whether it cannot be
\* decoded, fails validation, fails a ledger rule or succeeds.
C11_EveryMessageAnswered ==
    [][Handled =>
         /\ last'.stage \in {"rejected", "answered"}
         /\ ResponseValidate(last'.response) = ""]_vars

\* C12: a message that fails decoding or validation is answered ERROR with
\* BALANCE "0", also when its ACCOUNT_ID names an existing account, is not
\* handed to process, and leaves every Map and the snapshot as they were.
C12_RejectedChangesNothing ==
    [][(Handled /\ Decoded[last'.raw].error # "") =>
         /\ last'.stage = "rejected"
         /\ last'.response.status = "ERROR"
         /\ last'.response.message = Decoded[last'.raw].error
         /\ last'.response.balance = TextZero
         /\ ~last'.saved
         /\ mem' = mem
         /\ file' = file]_vars

\* a BALANCE request for the existing account 1001 with VALUE 500 was
\* rejected on a connection whose service holds 1001
C12_Witness ==
    /\ last.stage = "rejected"
    /\ last.raw = toString(Request("BALANCE", "1001", "", "500"))
    /\ "1001" \in DOMAIN mem[last.conn]
    /\ last.response = ErrorResponse("Valor deve ser zero para consulta de saldo.")

\* the amount of a request, as validate reads it
Amount(r) == NumberOfValue(r.value)

\* the rules of validation in their stated order, rule 4 (TRANSFER) being
\* two: the destination, then the amount.  Breaks(n, r): r violates the n-th.
Breaks(n, r) ==
    CASE n = 1 -> r.operation \notin {"TRANSFER", "WITHDRAW", "DEPOSIT", "BALANCE"}
      [] n = 2 -> ~IDValidate(r.account)
      [] n = 3 -> ~ValueValidate(r.value)
      [] n = 4 -> r.operation = "TRANSFER" /\ ~IDValidate(r.destination)
      [] n = 5 -> r.operation = "TRANSFER" /\ ~JsGt(Amount(r), Fin(0))
      [] n = 6 -> r.operation # "TRANSFER" /\ r.destination # ""
      [] n = 7 -> r.operation \in {"DEPOSIT", "WITHDRAW"}
                    /\ ~JsGt(Amount(r), Fin(0))
      [] n = 8 -> r.operation = "BALANCE" /\ Amount(r) # Fin(0)

RuleMessage(n) ==
    CASE n = 1 -> "Operação inválida."
      [] n = 2 -> "Conta principal inválida."
      [] n = 3 -> "Valor inválido."
      [] n = 4 -> "Conta de destino obrigatória e inválida para transferência."
      [] n = 5 -> "Valor da transferência deve ser maior que zero."
      [] n = 6 -> "Conta de destino só deve ser informada em transferência."
      [] n = 7 -> "Valor deve ser maior que zero para depósito ou saque."
      [] n = 8 -> "Valor deve ser zero para consulta de saldo."
      [] OTHER -> ""

\* the number of the first rule r violates, 0 when it violates none
FirstBroken(r) ==
    IF \E n \in 1..8 : Breaks(n, r)
    THEN CHOOSE n \in 1..8 :
           Breaks(n, r) /\ \A m \in 1..(n - 1) : ~Breaks(m, r)
    ELSE 0

\* the request the constructor validates when a text is received as it was
\* composed
ComposedRequest ==
    Request(ToUpperCase(wire.fields.operation), wire.fields.account,
            wire.fields.destination, wire.fields.value)

\* C13: validation reports the message of the first rule, in the stated
\* order, that the request violates, whatever later rules it violates too,
\* and accepts a request that violates none.
C13_ValidationOrder ==
    (/\ wire.stage = "received"
     /\ wire.dropped = "" /\ wire.colon = "" /\ wire.added = 0) =>
        wire.decoded.error = RuleMessage(FirstBroken(ComposedRequest))

\* a TRANSFER with the destination "abc" and the amount 0 violates both
\* halves of rule 4 and was rejected with the message of the first
C13_Witness ==
    /\ wire.stage = "received"
    /\ wire.dropped = "" /\ wire.colon = "" /\ wire.added = 0
    /\ wire.fields = Request("TRANSFER", "1001", "abc", "0")
    /\ Breaks(4, ComposedRequest) /\ Breaks(5, ComposedRequest)
    /\ wire.decoded.error = RuleMessage(4)

\* C14: every request that is decoded and accepted has a destination
\* exactly when it is a TRANSFER, the amount zero exactly when it is a
\* BALANCE, and an amount above zero when it is a DEPOSIT, WITHDRAW or
\* TRANSFER.
C14_AcceptedRequestShape ==
    (wire.stage \in {"received", "resent"} /\ wire.decoded.error = "") =>
        LET r == wire.decoded.request
        IN  /\ (r.destination # "") <=> (r.operation = "TRANSFER")
            /\ (Amount(r) = Fin(0)) <=> (r.operation = "BALANCE")
            /\ r.operation \in {"DEPOSIT", "WITHDRAW", "TRANSFER"}
                  => JsGt(Amount(r), Fin(0))

\* a deposit composed in lower case and with blanks was decoded and accepted
C14_Witness ==
    /\ wire.stage = "received"
    /\ wire.decoded.error = ""
    /\ wire.fields.operation = "deposit"
    /\ wire.decoded.request = Request("DEPOSIT", "1001", "", "500")

\* the text has a line whose key, the part before its first colon, is key
HasKey(text, key) ==
    \E i \in 1..Len(SplitOn(text, LineFeed)) :
        SplitOn(SplitOn(text, LineFeed)[i], Colon)[1] = <<key>>

\* the key names the text has no line for
AbsentKeys(text) ==
    { KeyNames[k] : k \in { j \in 1..Len(KeyNames) : ~HasKey(text, KeyNames[j]) } }

\* C17: decoding a text that lacks the line of one of the four keys fails
\* with the key-not-found error of a key it lacks, whatever the operation.
C17_MissingKeyRejected ==
    (wire.stage = "received" /\ AbsentKeys(wire.text) # {}) =>
        \E key \in AbsentKeys(wire.text) :
            wire.decoded.error = KeyNotFound(key)

\* C18: a request that was decoded from a text is decoded again from its
\* own toString, with the same operation, source, destination and amount.
C18_RoundTrip ==
    wire.stage = "resent" =>
        /\ wire.again.error = ""
        /\ wire.again.request = wire.decoded.request

\* a BALANCE request without destination, composed with blanks and with a
\* line added, went through toString and fromString again
C18_Witness ==
    /\ wire.stage = "resent"
    /\ wire.added > 0
    /\ wire.text # toString(wire.decoded.request)
    /\ wire.decoded.request = Request("BALANCE", "1001", "", "0")
    /\ wire.again.request = wire.decoded.request

\* C19: lines whose key is none of the four key names, added anywhere in a
\* text, change neither the decoded request nor whether decoding succeeds.
C19_UnknownKeysIgnored ==
    (wire.stage = "received" /\ wire.added > 0) =>
        wire.decoded = fromString(wire.base)

\* C15: a transfer from an account to itself fails with the same-account
\* error and changes nothing, whether or not the account exists, whatever
\* the amount (also zero or negative) and whatever its balance.
C15_SameAccountFirst ==
    (svc.call.op = "transfer" /\ svc.call.src = svc.call.dst) =>
        /\ svc.error = "Conta de origem e destino não podem ser iguais"
        /\ svc.accounts = svc.before

\* a transfer of -1 from the inexistent account 9999 to itself was refused
\* as a same-account transfer
C15_Witness ==
    /\ svc.call = [op |-> "transfer", src |-> "9999", dst |-> "9999",
                   amt |-> Units(-1)]
    /\ "9999" \notin DOMAIN svc.before
    /\ svc.error = "Conta de origem e destino não podem ser iguais"

\* the failure of a transfer between two different accounts, by the stated
\* order of the rules; "" when no rule is violated
TransferFailure(before, src, dst, amt) ==
    IF src \notin DOMAIN before THEN "Conta de origem inexistente"
    ELSE IF dst \notin DOMAIN before THEN "Conta de destino inexistente"
    ELSE IF JsLe(amt, Fin(0)) THEN "Valor inválido para transferência"
    ELSE IF JsGt(amt, before[src]) THEN "Saldo insuficiente para transferência"
    ELSE ""

\* C16: a transfer between two different accounts fails with the first
\* violated rule in the order source absent, destination absent, amount
\* <= 0, amount above the source balance, and succeeds exactly when none is
\* violated; a transfer of the whole source balance succeeds and leaves the
\* source at 0.
C16_TransferFailureOrder ==
    (svc.call.op = "transfer" /\ svc.call.src # svc.call.dst) =>
        /\ svc.error = TransferFailure(svc.before, svc.call.src, svc.call.dst,
                                       svc.call.amt)
        /\ (/\ svc.call.src \in DOMAIN svc.before
            /\ svc.call.dst \in DOMAIN svc.before
            /\ JsGt(svc.call.amt, Fin(0))
            /\ svc.call.amt = ToNumber(svc.before[svc.call.src]))
           => (svc.error = "" /\ svc.accounts[svc.call.src] = Fin(0))

\* C20: a deposit of x > 0 into an existing account followed at once by a
\* withdrawal of x from it, on the same service, both succeed and leave
\* every balance as it was before the deposit.
C20_DepositWithdrawRoundTrip ==
    (/\ svc.call.op = "withdraw"
     /\ svc.prev.call.op = "deposit"
     /\ svc.prev.call.src = svc.call.src
     /\ svc.prev.call.amt = svc.call.amt
     /\ svc.call.src \in DOMAIN svc.prev.before
     /\ JsGt(svc.call.amt, Fin(0))) =>
        /\ svc.prev.error = ""
        /\ svc.error = ""
        /\ svc.accounts = svc.prev.before

\* this step constructed the handler, controller and service of c
Constructed(c) == c \notin open /\ c \in open'

\* the balance the Map holds for a is the one that text states
Holds(accounts, a, text) ==
    /\ a \in DOMAIN accounts
    /\ HasToFixed(accounts[a])
    /\ ToFixed2(accounts[a]) = text

\* C21: a service constructed while accounts.json exists leaves the file as
\* it is and starts with exactly its accounts and balances, so that a
\* balance acknowledged before the construction, and not changed since, is
\* the balance the new service holds; a service constructed while there is
\* no file writes the default accounts (1001 = 500, 1002 = 1000,
\* 1003 = 250) and starts from them.
C21_ConstructedFromSnapshot ==
    [][\A c \in Conns : Constructed(c) =>
         IF file.exists
         THEN /\ file' = file
              /\ mem'[c] = file.content
              /\ \A a \in DOMAIN fresh :
                    fresh[a] # NoText => Holds(mem'[c], a, fresh[a])
         ELSE /\ file' = FileOf(DefaultAccounts)
              /\ mem'[c] = DefaultAccounts]_vars

\* C22: the identifiers of the accounts are those of the start: no request,
\* whatever identifiers it names, adds an account to or removes one from
\* the Map of the service that handles it or the snapshot.
C22_AccountSetFixed ==
    [][Handled =>
         /\ DOMAIN mem'[last'.conn] = {"1001", "1002", "1003"}
         /\ file'.exists
         /\ DOMAIN file'.content = {"1001", "1002", "1003"}]_vars

\* the pieces of a line after its first colon
RECURSIVE AfterFirstColon(_)
AfterFirstColon(line) ==
    IF line = <<>> THEN <<>>
    ELSE IF Head(line) = Colon THEN Tail(line)
    ELSE AfterFirstColon(Tail(line))

\* the text has a line for key, and that line has a colon
HasField(text, key) ==
    LET lines == SplitOn(text, LineFeed)
    IN  /\ FindLine(lines, key, 1) # 0
        /\ Len(SplitOn(lines[FindLine(lines, key, 1)], Colon)) >= 2

\* the whole text after the first colon of the line of key, trimmed
FieldAfterFirstColon(text, key) ==
    LET lines == SplitOn(text, LineFeed)
    IN  StringOf(Trim(AfterFirstColon(lines[FindLine(lines, key, 1)])))

\* C23: the value decoded for a key is the whole text after the first colon
\* of its line, trimmed: a received text is decoded as the request of the
\* four values so read, a value with a colon in it being read in full.
C23_ValueAfterFirstColon ==
    (/\ wire.stage = "received"
     /\ \A k \in 1..Len(KeyNames) : HasField(wire.text, KeyNames[k])) =>
        wire.decoded =
            NewRequest(FieldAfterFirstColon(wire.text, KeyNames[1]),
                       FieldAfterFirstColon(wire.text, KeyNames[2]),
                       FieldAfterFirstColon(wire.text, KeyNames[3]),
                       FieldAfterFirstColon(wire.text, KeyNames[4]))

\* the sum of the balances of a Map of the three accounts
Sum(accounts) ==
    JsAdd(JsAdd(accounts["1001"], accounts["1002"]), accounts["1003"])

\* this step processed a request with the service of its connection
ProcessedNow == served' = served + 1 /\ last'.stage # "rejected"

\* the request processed by this step succeeded
SucceededNow == last'.stage = "answered" /\ last'.response.status = "OK"

\* C24: within one service the sum of the balances is raised by x by a
\* successful deposit of x, lowered by x by a successful withdrawal of x,
\* and left as it was by a successful transfer, by a balance query and by
\* every operation that fails.
C24_Conservation ==
    [][ProcessedNow =>
          LET before == Sum(mem[last'.conn])
              after  == Sum(mem'[last'.conn])
              x      == NumberOfValue(last'.request.value)
          IN  CASE SucceededNow /\ last'.request.operation = "DEPOSIT" ->
                     after = JsAdd(before, x)
                [] SucceededNow /\ last'.request.operation = "WITHDRAW" ->
                     after = JsSub(before, x)
                [] OTHER -> after = before]_vars

\* the accounts the last call of the service may change
Named(call) ==
    CASE call.op \in {"deposit", "withdraw"} -> {call.src}
      [] call.op = "transfer" -> {call.src, call.dst}
      [] OTHER -> {}

\* C25: a deposit and a withdrawal change the balance of their account
\* only, a transfer the balances of its source and its destination only, a
\* balance query none; every account the call does not name has the
\* balance it had before the call.
C25_Frame ==
    svc.calls > 0 =>
        /\ DOMAIN svc.accounts = DOMAIN svc.before
        /\ \A a \in DOMAIN svc.before :
              a \notin Named(svc.call) => svc.accounts[a] = svc.before[a]

\* a withdrawal from 1001 after a transfer from 1001 to 1002: both changed
\* the accounts they name and left 1003, and the withdrawal 1002, alone
C25_Witness ==
    /\ svc.prev.call = [op |-> "transfer", src |-> "1001", dst |-> "1002",
                        amt |-> Fin(1)]
    /\ svc.prev.error = ""
    /\ svc.call = [op |-> "withdraw", src |-> "1001", dst |-> "",
                   amt |-> Fin(1)]
    /\ svc.error = ""
    /\ svc.accounts["1001"] # svc.before["1001"]
    /\ svc.before["1002"] # DefaultAccounts["1002"]
    /\ svc.accounts["1002"] = svc.before["1002"]
    /\ svc.accounts["1003"] = DefaultAccounts["1003"]

\* the messages of the service's amount checks and of the default branch
\* of the controller's switch
UnreachableMessages ==
    { "Valor inválido para depósito", "Valor inválido para saque",
      "Valor inválido para transferência", "Operação desconhecida" }

\* the text states a deposit, withdrawal or transfer of the amount 0
ZeroAmountMutation(raw) ==
    /\ HasField(raw, KeyNames[1])
    /\ HasField(raw, KeyNames[4])
    /\ IsMutation(ToUpperCase(FieldAfterFirstColon(raw, KeyNames[1])))
    /\ FieldAfterFirstColon(raw, KeyNames[4]) = "0"

\* C26: every request of a message that reaches process has one of the
\* four operations and, when it is a deposit, withdrawal or transfer, an
\* amount above zero, so process never fails with the invalid-amount
\* errors of the service nor with the unknown-operation error; a message
\* stating a deposit, withdrawal or transfer of 0 is rejected before
\* process, with the balance "0".
C26_AmountChecksUnreachable ==
    /\ last.stage \in {"answered", "threw"} =>
          /\ last.request.operation
                \in {"BALANCE", "DEPOSIT", "WITHDRAW", "TRANSFER"}
          /\ IsMutation(last.request.operation)
                => JsGt(NumberOfValue(last.request.value), Fin(0))
          /\ last.response.message \notin UnreachableMessages
    /\ (last.stage # "none" /\ ZeroAmountMutation(last.raw)) =>
          /\ last.stage = "rejected"
          /\ last.response.status = "ERROR"
          /\ last.response.balance = TextZero

\* a deposit of 0 into 1001 was rejected by the validation of the request
\* and answered with the balance "0", the Map of the service as it was
C26_Witness ==
    /\ last.stage = "rejected"
    /\ ZeroAmountMutation(last.raw)
    /\ last.raw = toString(Request("DEPOSIT", "1001", "", "0"))
    /\ last.response =
          Response("ERROR",
                   "Valor deve ser maior que zero para depósito ou saque.",
                   TextZero)
    /\ mem[last.conn] = DefaultAccounts

=============================================================================
